---------------------------- MODULE Spec2Model ----------------------------
(***************************************************************************)
(* A model of packages/bazel/src/ng_package/packager.ts: the layout        *)
(* resolution of one packaging run (entry-point classification, artifact   *)
(* placement, bundle-index relocation, redirect synthesis) and the pure    *)
(* text transforms it applies (descriptor rewriting, version placeholder   *)
(* substitution, entry-point name derivation).                             *)
(*                                                                         *)
(* Strings are sequences of one-character strings, so that split, join,    *)
(* startsWith, endsWith and replace are computed character by character.   *)
(* A path written into the output tree is kept relative to the output      *)
(* root `out` (path.join(out, x) is the normalised x).                     *)
(***************************************************************************)
EXTENDS Integers, Sequences, FiniteSets, TLC

(***************************************************************************)
(* Bounds of the model.                                                    *)
(***************************************************************************)
\* The ES2015 and the ES5 FESM list hold at most this many artifacts together.
MaxFesm == 3
\* A package name has at most this many characters.
MaxName == 6
\* A FESM base name has at most this many characters.
MaxBase == 4
\* A text content is the concatenation of at most this many chunks.
MaxChunks == 3

(***************************************************************************)
(* String primitives (JavaScript String.prototype and Array.prototype).    *)
(***************************************************************************)
StartsWith(s, p) ==
    /\ Len(p) <= Len(s)
    /\ SubSeq(s, 1, Len(p)) = p

EndsWith(s, p) ==
    /\ Len(p) <= Len(s)
    /\ SubSeq(s, Len(s) - Len(p) + 1, Len(s)) = p

\* s from its k-th character on (1-based): s.substring(k - 1).
From(s, k) == SubSeq(s, k, Len(s))

\* The first index >= k at which d occurs in s, or 0: s.indexOf(d, k - 1) + 1.
RECURSIVE IndexOf(_, _, _)
IndexOf(s, d, k) ==
    IF k + Len(d) - 1 > Len(s) THEN 0
    ELSE IF SubSeq(s, k, k + Len(d) - 1) = d THEN k
    ELSE IndexOf(s, d, k + 1)

\* s.split(d) for a non-empty separator d: the pieces between the leftmost
\* non-overlapping occurrences of d, empty pieces kept.
RECURSIVE Split(_, _)
Split(s, d) ==
    LET k == IndexOf(s, d, 1) IN
    IF k = 0 THEN <<s>>
    ELSE <<SubSeq(s, 1, k - 1)>> \o Split(From(s, k + Len(d)), d)

\* parts.join(sep); the empty array joins to the empty string.
RECURSIVE Join(_, _)
Join(parts, sep) ==
    IF Len(parts) = 0 THEN <<>>
    ELSE IF Len(parts) = 1 THEN parts[1]
    ELSE parts[1] \o sep \o Join(Tail(parts), sep)

\* s.replace(/\..*/, ''): everything from the first '.' on is removed (the
\* strings of the model hold no line terminator, so .* runs to the end).
StripFromFirstDot(s) ==
    LET k == IndexOf(s, <<".">>, 1) IN
    IF k = 0 THEN s ELSE SubSeq(s, 1, k - 1)

\* Array(n).fill(x): n copies of x.
Fill(n, x) == [j \in 1..n |-> x]

Last(parts) == parts[Len(parts)]
Front(parts) == SubSeq(parts, 1, Len(parts) - 1)

(***************************************************************************)
(* Path primitives (Node's posix path module).                             *)
(***************************************************************************)
SLASH == <<"/">>
DOT == <<".">>
DOTDOT == <<".", ".">>

\* The segments of a path after normalisation: empty and '.' segments are
\* dropped, a '..' removes the segment before it (and stays when there is
\* none, the path being relative).
RECURSIVE NormSegs(_, _)
NormSegs(segs, acc) ==
    IF Len(segs) = 0 THEN acc
    ELSE LET h == Head(segs) IN
         IF h = <<>> \/ h = DOT THEN NormSegs(Tail(segs), acc)
         ELSE IF h = DOTDOT /\ Len(acc) > 0 /\ Last(acc) # DOTDOT
              THEN NormSegs(Tail(segs), Front(acc))
         ELSE NormSegs(Tail(segs), Append(acc, h))

\* path.join(...parts) of relative parts: the non-empty parts joined by '/'
\* and normalised; '.' when nothing is left.
PathJoin(parts) ==
    LET segs == NormSegs(Split(Join(SelectSeq(parts, LAMBDA p : p # <<>>), SLASH), SLASH), <<>>) IN
    IF Len(segs) = 0 THEN DOT ELSE Join(segs, SLASH)

\* path.join(out, ...parts), kept relative to out: a leading '.' is out itself.
OutJoin(parts) ==
    LET p == PathJoin(parts) IN IF p = DOT THEN <<>> ELSE p

\* s without its trailing slashes.
RECURSIVE StripTrailingSlashes(_)
StripTrailingSlashes(s) ==
    IF Len(s) > 0 /\ s[Len(s)] = "/" THEN StripTrailingSlashes(Front(s)) ELSE s

\* path.basename(p): what follows the last '/', trailing slashes ignored.
PathBasename(p) == Last(Split(StripTrailingSlashes(p), SLASH))

\* The length of the longest common prefix of two segment lists.
RECURSIVE CommonLen(_, _)
CommonLen(a, b) ==
    IF Len(a) = 0 \/ Len(b) = 0 \/ Head(a) # Head(b) THEN 0
    ELSE 1 + CommonLen(Tail(a), Tail(b))

\* path.relative(from, to): one '..' per segment of `from` below the common
\* ancestor, then the segments of `to` below it.
PathRelative(from, to) ==
    LET a == NormSegs(Split(from, SLASH), <<>>)
        b == NormSegs(Split(to, SLASH), <<>>)
        c == CommonLen(a, b)
    IN Join(Fill(Len(a) - c, DOTDOT) \o SubSeq(b, c + 1, Len(b)), SLASH)

(***************************************************************************)
(* Literal texts of the program.                                           *)
(***************************************************************************)
D_TS == <<".", "d", ".", "t", "s">>
METADATA_JSON == <<".", "m", "e", "t", "a", "d", "a", "t", "a", ".", "j", "s", "o", "n">>
BUNDLE_INDEX_D_TS == <<".", "b", "u", "n", "d", "l", "e", "_", "i", "n", "d", "e", "x", ".", "d", ".", "t", "s">>
BUNDLE_INDEX_METADATA_JSON == <<".", "b", "u", "n", "d", "l", "e", "_", "i", "n", "d", "e", "x", ".", "m", "e", "t", "a", "d", "a", "t", "a", ".", "j", "s", "o", "n">>
NGFACTORY == <<".", "n", "g", "f", "a", "c", "t", "o", "r", "y">>
NGSUMMARY == <<".", "n", "g", "s", "u", "m", "m", "a", "r", "y">>
DOUBLE_UNDERSCORE == <<"_", "_">>
NULL_TEXT == <<"n", "u", "l", "l">>
ESM2015 == <<"e", "s", "m", "2", "0", "1", "5">>
ESM5 == <<"e", "s", "m", "5">>
BUNDLES == <<"b", "u", "n", "d", "l", "e", "s">>
README_MD == <<"R", "E", "A", "D", "M", "E", ".", "m", "d">>
PACKAGE_JSON == <<"p", "a", "c", "k", "a", "g", "e", ".", "j", "s", "o", "n">>

(***************************************************************************)
(* filter(ext): the files of the build-output tree a loop of main takes.   *)
(***************************************************************************)
\* Mutant: the generated files are not excluded.
filterByExtensionOnly(ext, f) == EndsWith(f, ext)

filter(ext, f) ==
    /\ EndsWith(f, ext)
    /\ ~EndsWith(f, NGFACTORY \o ext)
    /\ ~EndsWith(f, NGSUMMARY \o ext)

(***************************************************************************)
(* writeFesm: entry-point name, classification and destination.            *)
(***************************************************************************)
\* Mutant: empty parts are dropped, as for the comma-separated arguments.
FesmPartsNonEmpty(file) ==
    SelectSeq(Split(PathBasename(file), <<"_", "_">>), LAMBDA part : part # <<>>)

\* const parts = path.basename(file).split('__')
FesmParts(file) == Split(PathBasename(file), DOUBLE_UNDERSCORE)

\* const entryPointName = parts.join('/').replace(/\..*/, '')
entryPointName(file) == StripFromFirstDot(Join(FesmParts(file), SLASH))

\* An optional string is <<>> (null, undefined) or <<s>>.
IsNull(opt) == opt = <<>>

\* The primary entry point after an artifact of the given name is classified.
ClassifyPrimary(primary, name) ==
    IF IsNull(primary) \/ primary = <<name>> THEN <<name>> ELSE primary

\* Set.prototype.add on a set kept in insertion order.
SetAdd(set, x) ==
    IF \E k \in 1..Len(set) : set[k] = x THEN set ELSE Append(set, x)

\* Mutant: the comparison with the primary is left out.
ClassifySecondariesUnchecked(primary, secondaries, name) ==
    IF IsNull(primary) THEN secondaries ELSE SetAdd(secondaries, name)

\* The secondary entry points after an artifact of the given name is classified.
ClassifySecondaries(primary, secondaries, name) ==
    IF IsNull(primary) \/ primary = <<name>> THEN secondaries
    ELSE SetAdd(secondaries, name)

\* dir = path.join(baseDir, ...parts) after parts.splice(-1) took the last part.
FesmDir(file, baseDir) == OutJoin(<<baseDir>> \o Front(FesmParts(file)))

\* Where shx.cp(file, dir) puts the artifact, and where shx.mv leaves it.
FesmCopied(file, baseDir) == OutJoin(<<FesmDir(file, baseDir), PathBasename(file)>>)
FesmDest(file, baseDir) == OutJoin(<<FesmDir(file, baseDir), Last(FesmParts(file))>>)

(***************************************************************************)
(* moveBundleIndex.                                                        *)
(***************************************************************************)
\* The extension class of a bundle-index file; <<>> when the code throws.
BundleIndexExt(f) ==
    IF EndsWith(f, D_TS) THEN <<D_TS>>
    ELSE IF EndsWith(f, METADATA_JSON) THEN <<METADATA_JSON>>
    ELSE <<>>

\* The for loop over secondaryEntryPoints.values(): outputPath after the
\* entries from the k-th on have been visited.
RECURSIVE MoveBundleIndexLoop(_, _, _, _, _)
MoveBundleIndexLoop(secondaries, k, relative, ext, outputPath) ==
    IF k > Len(secondaries) THEN outputPath
    ELSE LET secondary == secondaries[k]
             filename == Last(Split(secondary, SLASH))
         IN MoveBundleIndexLoop(secondaries, k + 1, relative, ext,
                IF StartsWith(relative, secondary)
                THEN <<OutJoin(<<secondary, filename \o ext>>)>>
                ELSE outputPath)

\* primaryEntryPoint + ext: string concatenation turns null into 'null'.
PrimaryText(primary) == IF IsNull(primary) THEN NULL_TEXT ELSE primary[1]

\* Mutant: the loop stops at the first match.
moveBundleIndexFirstMatch(f, binDir, primary, secondaries) ==
    LET ext == BundleIndexExt(f)[1]
        relative == PathRelative(binDir, f)
        hits == SelectSeq(secondaries, LAMBDA secondary : StartsWith(relative, secondary))
    IN IF Len(hits) = 0 THEN OutJoin(<<PrimaryText(primary) \o ext>>)
       ELSE OutJoin(<<hits[1], Last(Split(hits[1], SLASH)) \o ext>>)

\* The output path of bundle-index file f, relative to out.
moveBundleIndex(f, binDir, primary, secondaries) ==
    LET ext == BundleIndexExt(f)[1]
        relative == PathRelative(binDir, f)
        outputPath == MoveBundleIndexLoop(secondaries, 1, relative, ext, <<>>)
    IN IF IsNull(outputPath) THEN OutJoin(<<PrimaryText(primary) \o ext>>)
       ELSE outputPath[1]

(***************************************************************************)
(* The redirect stubs of a secondary entry point.                          *)
(***************************************************************************)
\* const baseName = secondaryEntryPoint.split('/').pop()
RedirectBaseName(secondary) == Last(Split(secondary, SLASH))

\* const dirName = path.join(...secondaryEntryPoint.split('/').slice(0, -1))
RedirectDirName(secondary) == PathJoin(Front(Split(secondary, SLASH)))

\* path.join(out, dirName, `${baseName}${ext}`)
RedirectPath(secondary, ext) ==
    OutJoin(<<RedirectDirName(secondary), RedirectBaseName(secondary) \o ext>>)

\* Mutant: the whole name is used in place of its last segment.
RedirectTargetWholeName(secondary) ==
    <<".", "/">> \o secondary \o SLASH \o secondary

\* `./${baseName}/${baseName}`
RedirectTarget(secondary) ==
    <<".", "/">> \o RedirectBaseName(secondary) \o SLASH \o RedirectBaseName(secondary)

(***************************************************************************)
(* replaceVersionPlaceholders.                                             *)
(***************************************************************************)
\* The source of the RegExp: '0.0.0' + '-PLACEHOLDER'.
PLACEHOLDER_PATTERN == <<"0", ".", "0", ".", "0">> \o <<"-", "P", "L", "A", "C", "E", "H", "O", "L", "D", "E", "R">>

\* Whether the pattern matches s at position k: a '.' of the pattern matches
\* any character but a line terminator, every other character itself.
MatchesAt(s, k) ==
    /\ k + Len(PLACEHOLDER_PATTERN) - 1 <= Len(s)
    /\ \A j \in 1..Len(PLACEHOLDER_PATTERN) :
          IF PLACEHOLDER_PATTERN[j] = "."
          THEN s[k + j - 1] \notin {"\n", "\r"}
          ELSE s[k + j - 1] = PLACEHOLDER_PATTERN[j]

\* The replacement string expanded for the match of s at k: $$ is '$' and $&
\* the match (the pattern has no group, and the versions of the model hold
\* neither a backquote nor an apostrophe, the other two special patterns).
RECURSIVE Expand(_, _, _)
Expand(v, s, k) ==
    IF Len(v) = 0 THEN <<>>
    ELSE IF v[1] = "$" /\ Len(v) >= 2 /\ v[2] \in {"$", "&"}
         THEN (IF v[2] = "$" THEN <<"$">>
               ELSE SubSeq(s, k, k + Len(PLACEHOLDER_PATTERN) - 1))
              \o Expand(From(v, 3), s, k)
    ELSE <<v[1]>> \o Expand(Tail(v), s, k)

\* content.replace(new RegExp(..., 'g'), version) from position k on: every
\* leftmost non-overlapping match is replaced.
RECURSIVE ReplaceFrom(_, _, _)
ReplaceFrom(s, k, version) ==
    IF k > Len(s) THEN <<>>
    ELSE IF MatchesAt(s, k)
         THEN Expand(version, s, k)
              \o ReplaceFrom(s, k + Len(PLACEHOLDER_PATTERN), version)
    ELSE <<s[k]>> \o ReplaceFrom(s, k + 1, version)

\* Mutant: the RegExp lacks the 'g' flag, so only the first match is replaced.
RECURSIVE ReplaceFirstFrom(_, _, _)
ReplaceFirstFrom(s, k, version) ==
    IF k > Len(s) THEN <<>>
    ELSE IF MatchesAt(s, k)
         THEN Expand(version, s, k) \o From(s, k + Len(PLACEHOLDER_PATTERN))
    ELSE <<s[k]>> \o ReplaceFirstFrom(s, k + 1, version)

ReplaceFirst(s, version) == ReplaceFirstFrom(s, 1, version)

ReplaceAll(s, version) == ReplaceFrom(s, 1, version)

\* stampData is absent (<<>>) or holds the version the BUILD_SCM_VERSION line
\* gives (<<version>>, trimmed).
replaceVersionPlaceholders(content, stampData) ==
    IF IsNull(stampData) THEN content ELSE ReplaceAll(content, stampData[1])

(***************************************************************************)
(* amendPackageJson, on the parsed descriptor's name.                      *)
(***************************************************************************)
\* nameParts after the scope segment, if any, has been spliced off.
NameParts(name) ==
    LET nameParts == Split(name, SLASH) IN
    IF StartsWith(nameParts[1], <<"@">>) THEN Tail(nameParts) ELSE nameParts

\* Array(nameParts.length - 1) throws a RangeError on a negative length.
AmendThrows(name) == Len(NameParts(name)) - 1 < 0

\* Mutant: one '..' per segment.
RelOfEverySegment(nameParts) ==
    LET rel == Join(Fill(Len(nameParts), DOTDOT), SLASH) IN
    IF rel = <<>> THEN DOT ELSE rel

\* let rel = Array(nameParts.length - 1).fill('..').join('/'); if (!rel) rel = '.'
RelOf(nameParts) ==
    LET rel == Join(Fill(Len(nameParts) - 1, DOTDOT), SLASH) IN
    IF rel = <<>> THEN DOT ELSE rel

\* The four fields amendPackageJson sets.
AmendedFields(name) ==
    LET nameParts == NameParts(name)
        rel == RelOf(nameParts)
        indexFile == nameParts[Len(nameParts)]
    IN [main |-> rel \o <<"/", "b", "u", "n", "d", "l", "e", "s", "/">> \o Join(nameParts, <<"-">>) \o <<".", "u", "m", "d", ".", "j", "s">>,
        module |-> rel \o <<"/", "e", "s", "m", "5", "/">> \o indexFile \o <<".", "j", "s">>,
        es2015 |-> rel \o <<"/", "e", "s", "m", "2", "0", "1", "5", "/">> \o indexFile \o <<".", "j", "s">>,
        typings |-> <<".", "/">> \o indexFile \o D_TS]

(***************************************************************************)
(* The run parameters main reads from its parameter file.  The roots are   *)
(* fixed; the artifact lists and the build-output tree are drawn from the  *)
(* candidates below.                                                       *)
(***************************************************************************)
binDir == <<"b">>
srcDir == <<"s">>

FesmCandidates ==
    << <<"f", "/", "c", ".", "j", "s">>,
       <<"f", "/", "a", ".", "j", "s">>,
       <<"f", "/", "a", "_", "_", "b", ".", "j", "s">> >>

\* What shx.find('-R', binDir) may list, in traversal order.
BinCandidates ==
    << <<"b", "/", "a", "/", "b", "/", "i", ".", "b", "u", "n", "d", "l", "e", "_", "i", "n", "d", "e", "x", ".", "d", ".", "t", "s">>,
       <<"b", "/", "a", "/", "x", ".", "d", ".", "t", "s">>,
       <<"b", "/", "a", "/", "x", ".", "n", "g", "f", "a", "c", "t", "o", "r", "y", ".", "d", ".", "t", "s">>,
       <<"b", "/", "a", "/", "x", ".", "m", "e", "t", "a", "d", "a", "t", "a", ".", "j", "s", "o", "n">>,
       <<"b", "/", "c", ".", "b", "u", "n", "d", "l", "e", "_", "i", "n", "d", "e", "x", ".", "m", "e", "t", "a", "d", "a", "t", "a", ".", "j", "s", "o", "n">> >>

SrcCandidates ==
    << <<"s", "/", "p", "a", "c", "k", "a", "g", "e", ".", "j", "s", "o", "n">>,
       <<"s", "/", "x", ".", "n", "g", "s", "u", "m", "m", "a", "r", "y", ".", "d", ".", "t", "s">> >>

BundleCandidates ==
    << <<"f", "/", "c", ".", "u", "m", "d", ".", "j", "s">> >>

\* The elements of list whose index is in S, in the order of the list.
RECURSIVE Pick(_, _, _)
Pick(list, S, k) ==
    IF k > Len(list) THEN <<>>
    ELSE (IF k \in S THEN <<list[k]>> ELSE <<>>) \o Pick(list, S, k + 1)

SubLists(list) == { Pick(list, S, 1) : S \in SUBSET (1..Len(list)) }

\* The sequences of at most n elements of list.
RECURSIVE ListsUpTo(_, _)
ListsUpTo(list, n) ==
    IF n = 0 THEN { <<>> }
    ELSE LET shorter == ListsUpTo(list, n - 1) IN
         shorter \cup { Append(l, list[k]) : l \in shorter, k \in 1..Len(list) }

Range(seq) == { seq[k] : k \in 1..Len(seq) }

(***************************************************************************)
(* The state of a run of main.                                             *)
(***************************************************************************)
VARIABLES
    pc,                     \* the loop of main that is running
    i,                      \* the index of its next element
    readmeMd,               \* whether a README was given
    fesms2015, fesms5,      \* the FESM artifact lists
    bundles, srcs,          \* the bundle list, the source-tree artifacts
    allsrcs,                \* shx.find('-R', binDir)
    primaryEntryPoint,      \* null (<<>>) or <<name>>
    secondaryEntryPoints,   \* the Set, in insertion order
    outTree,                \* the files of the output tree: [path, kind, exports]
    classified,             \* the number of writeFesm calls so far
    moved,                  \* the moveBundleIndex calls so far: [f, to]
    redirected,             \* whether a redirect stub has been written
    descriptor,             \* amendPackageJson: the parsed package descriptor
    stamped,                \* replaceVersionPlaceholders: a content, its results
    named                   \* the name derivation: two artifacts, their names

mainVars == <<pc, i, readmeMd, fesms2015, fesms5, bundles, srcs, allsrcs,
              primaryEntryPoint, secondaryEntryPoints, outTree, classified,
              moved, redirected>>

\* The state of the text transforms, which a run of main leaves alone here:
\* the contents it writes are kept by kind only.
textVars == <<descriptor, stamped, named>>
vars == <<mainVars, textVars>>

\* Mutant: the declarations are written before the ES5 FESM list is read.
PhaseOrderDeclarationsEarly ==
    <<"readme", "fesms2015", "bundles", "decls", "fesms5", "srcs", "bimeta",
      "secondary", "done">>

\* The statements of main in program order.
PhaseOrder ==
    <<"readme", "fesms2015", "fesms5", "bundles", "decls", "srcs", "bimeta",
      "secondary", "done">>

\* What a loop of main iterates over (secondaries: the Set at that time).
WorkOf(phase, secondaries) ==
    CASE phase = "readme" -> <<README_MD>>
      [] phase = "fesms2015" -> fesms2015
      [] phase = "fesms5" -> fesms5
      [] phase = "bundles" -> bundles
      [] phase = "decls" -> SelectSeq(allsrcs, LAMBDA f : filter(D_TS, f))
      [] phase = "srcs" -> srcs
      [] phase = "bimeta" ->
            SelectSeq(allsrcs, LAMBDA f : filter(BUNDLE_INDEX_METADATA_JSON, f))
      [] phase = "secondary" -> secondaries
      [] OTHER -> <<>>

\* The first statement from the k-th on that has something to do.
RECURSIVE PhaseFrom(_, _)
PhaseFrom(k, secondaries) ==
    IF k >= Len(PhaseOrder) THEN "done"
    ELSE IF Len(WorkOf(PhaseOrder[k], secondaries)) > 0 THEN PhaseOrder[k]
    ELSE PhaseFrom(k + 1, secondaries)

PhaseIndex(phase) == CHOOSE k \in 1..Len(PhaseOrder) : PhaseOrder[k] = phase

\* fs.writeFileSync / shx.cp: the file at path is created or replaced.
Put(tree, path, kind, exports) ==
    { e \in tree : e.path # path }
    \cup { [path |-> path, kind |-> kind, exports |-> exports] }

\* shx.mv(a, b): the file at a is renamed to b, replacing what was there.
Move(tree, a, b) ==
    IF a = b THEN tree
    ELSE { e \in tree : e.path # a /\ e.path # b }
         \cup { [path |-> b, kind |-> e.kind, exports |-> e.exports] : e \in { x \in tree : x.path = a } }

Paths(tree) == { e.path : e \in tree }

\* The element the running loop is at, and the move to the next one.
Current == WorkOf(pc, secondaryEntryPoints)[i]

Advance(secondaries) ==
    IF i < Len(WorkOf(pc, secondaries))
    THEN pc' = pc /\ i' = i + 1
    ELSE pc' = PhaseFrom(PhaseIndex(pc) + 1, secondaries) /\ i' = 1

inputs == <<readmeMd, fesms2015, fesms5, bundles, srcs, allsrcs>>

\* A run is given its optional inputs (README, bundles, source-tree
\* artifacts) together or not at all.
InitMain ==
    /\ readmeMd \in BOOLEAN
    /\ fesms2015 \in ListsUpTo(FesmCandidates, MaxFesm)
    /\ fesms5 \in ListsUpTo(FesmCandidates, MaxFesm - Len(fesms2015))
    /\ bundles = IF readmeMd THEN BundleCandidates ELSE <<>>
    /\ srcs = IF readmeMd THEN SrcCandidates ELSE <<>>
    /\ allsrcs \in SubLists(BinCandidates)
    /\ primaryEntryPoint = <<>>
    /\ secondaryEntryPoints = <<>>
    /\ outTree = {}
    /\ classified = 0
    /\ moved = {}
    /\ redirected = FALSE
    /\ i = 1
    /\ pc = PhaseFrom(1, <<>>)

\* if (readmeMd) shx.cp(readmeMd, path.join(out, 'README.md'))
CopyReadme ==
    /\ pc = "readme"
    /\ outTree' = IF readmeMd THEN Put(outTree, README_MD, "readme", <<>>) ELSE outTree
    /\ Advance(secondaryEntryPoints)
    /\ UNCHANGED <<inputs, textVars, primaryEntryPoint, secondaryEntryPoints, classified,
                   moved, redirected>>

\* writeFesm(file, baseDir)
writeFesm(file, baseDir) ==
    LET name == entryPointName(file) IN
    /\ primaryEntryPoint' = ClassifyPrimary(primaryEntryPoint, name)
    /\ secondaryEntryPoints' =
            ClassifySecondaries(primaryEntryPoint, secondaryEntryPoints, name)
    /\ classified' = classified + 1
    /\ outTree' = Move(Put(outTree, FesmCopied(file, baseDir), "fesm", <<>>),
                       FesmCopied(file, baseDir), FesmDest(file, baseDir))

\* fesms2015.forEach(fesm2015 => writeFesm(fesm2015, path.join(out, 'esm2015')))
WriteFesm2015 ==
    /\ pc = "fesms2015"
    /\ writeFesm(Current, ESM2015)
    /\ Advance(secondaryEntryPoints')
    /\ UNCHANGED <<inputs, textVars, moved, redirected>>

\* fesms5.forEach(fesm5 => writeFesm(fesm5, path.join(out, 'esm5')))
WriteFesm5 ==
    /\ pc = "fesms5"
    /\ writeFesm(Current, ESM5)
    /\ Advance(secondaryEntryPoints')
    /\ UNCHANGED <<inputs, textVars, moved, redirected>>

\* bundles.forEach(bundle => { shx.cp(bundle, bundlesDir); })
CopyBundle ==
    /\ pc = "bundles"
    /\ outTree' = Put(outTree, OutJoin(<<BUNDLES, PathBasename(Current)>>),
                      "bundle", <<>>)
    /\ Advance(secondaryEntryPoints)
    /\ UNCHANGED <<inputs, textVars, primaryEntryPoint, secondaryEntryPoints, classified,
                   moved, redirected>>

\* Mutant: the directory of the declaration file is dropped.
DeclarationOutputPathFlat(f, primary, secondaries) ==
    IF EndsWith(f, BUNDLE_INDEX_D_TS)
    THEN moveBundleIndex(f, binDir, primary, secondaries)
    ELSE OutJoin(<<PathBasename(f)>>)

\* The outputPath of a declaration file of the build-output tree.
DeclarationOutputPath(f, primary, secondaries) ==
    IF EndsWith(f, BUNDLE_INDEX_D_TS)
    THEN moveBundleIndex(f, binDir, primary, secondaries)
    ELSE OutJoin(<<PathRelative(binDir, f)>>)

\* allsrcs.filter(filter('.d.ts')).forEach(...)
WriteDeclaration ==
    /\ pc = "decls"
    /\ LET f == Current
           bundleIndex == EndsWith(f, BUNDLE_INDEX_D_TS)
           outputPath == DeclarationOutputPath(f, primaryEntryPoint, secondaryEntryPoints)
       IN /\ outTree' = Put(outTree, outputPath, "decl", <<>>)
          /\ moved' = IF bundleIndex
                      THEN moved \cup { [f |-> f, to |-> outputPath] }
                      ELSE moved
    /\ Advance(secondaryEntryPoints)
    /\ UNCHANGED <<inputs, textVars, primaryEntryPoint, secondaryEntryPoints, classified,
                   redirected>>

\* for (const src of srcs) { ... }: the content has its placeholders replaced
\* and, for a package.json, its fields amended.
CopySource ==
    /\ pc = "srcs"
    /\ outTree' = Put(outTree, OutJoin(<<PathRelative(srcDir, Current)>>),
                      IF PathBasename(Current) = PACKAGE_JSON
                      THEN "src.package.json" ELSE "src",
                      <<>>)
    /\ Advance(secondaryEntryPoints)
    /\ UNCHANGED <<inputs, textVars, primaryEntryPoint, secondaryEntryPoints, classified,
                   moved, redirected>>

\* allsrcs.filter(filter('.bundle_index.metadata.json')).forEach(...)
WriteBundleIndexMetadata ==
    /\ pc = "bimeta"
    /\ LET f == Current
           outputPath == moveBundleIndex(f, binDir, primaryEntryPoint, secondaryEntryPoints)
       IN /\ outTree' = Put(outTree, outputPath, "bimeta", <<>>)
          /\ moved' = moved \cup { [f |-> f, to |-> outputPath] }
    /\ Advance(secondaryEntryPoints)
    /\ UNCHANGED <<inputs, textVars, primaryEntryPoint, secondaryEntryPoints, classified,
                   redirected>>

\* for (const secondaryEntryPoint of secondaryEntryPoints.values()) { ... }
WriteRedirects ==
    /\ pc = "secondary"
    /\ LET secondary == Current IN
       outTree' = Put(Put(outTree, RedirectPath(secondary, METADATA_JSON),
                          "redirect.metadata.json", RedirectTarget(secondary)),
                      RedirectPath(secondary, D_TS),
                      "redirect.d.ts", RedirectTarget(secondary))
    /\ redirected' = TRUE
    /\ Advance(secondaryEntryPoints)
    /\ UNCHANGED <<inputs, textVars, primaryEntryPoint, secondaryEntryPoints, classified,
                   moved>>

NextMain ==
    \/ CopyReadme
    \/ WriteFesm2015
    \/ WriteFesm5
    \/ CopyBundle
    \/ WriteDeclaration
    \/ CopySource
    \/ WriteBundleIndexMetadata
    \/ WriteRedirects

(***************************************************************************)
(* The text transforms, each applied to inputs of its own.                 *)
(***************************************************************************)
NoDescriptor == [status |-> "none"]
NoStamped == [status |-> "none"]
NoNamed == [status |-> "none"]

\* No run of main is in progress.
IdleMain ==
    /\ pc = "idle"
    /\ i = 0
    /\ readmeMd = FALSE
    /\ fesms2015 = <<>>
    /\ fesms5 = <<>>
    /\ bundles = <<>>
    /\ srcs = <<>>
    /\ allsrcs = <<>>
    /\ primaryEntryPoint = <<>>
    /\ secondaryEntryPoints = <<>>
    /\ outTree = {}
    /\ classified = 0
    /\ moved = {}
    /\ redirected = FALSE

\* The strings of at most n characters over an alphabet.
RECURSIVE Strings(_, _)
Strings(alphabet, n) ==
    IF n = 0 THEN { <<>> }
    ELSE LET shorter == Strings(alphabet, n - 1) IN
         shorter \cup { Append(t, c) : t \in shorter, c \in alphabet }

\* ---- the run of main ----
Init ==
    /\ InitMain
    /\ descriptor = NoDescriptor
    /\ stamped = NoStamped
    /\ named = NoNamed

Next == NextMain

Spec == Init /\ [][Next]_vars

\* ---- amendPackageJson ----
ANGULAR_CORE == <<"@", "a", "n", "g", "u", "l", "a", "r", "/", "c", "o", "r", "e">>
SCOPE_FOO == <<"@", "s", "c", "o", "p", "e", "/", "f", "o", "o">>
SCOPE_SUB_FOO == <<"@", "s", "c", "o", "p", "e", "/", "s", "u", "b", "/", "f", "o", "o">>

PackageNames ==
    Strings({"@", "/", "a", "b"}, MaxName) \cup {ANGULAR_CORE, SCOPE_FOO, SCOPE_SUB_FOO}

InitAmend ==
    /\ IdleMain
    /\ descriptor \in { [status |-> "parsed", name |-> n] : n \in PackageNames }
    /\ stamped = NoStamped
    /\ named = NoNamed

\* amendPackageJson(filePath, content), after JSON.parse(content)
amendPackageJson ==
    /\ descriptor.status = "parsed"
    /\ descriptor' =
          IF AmendThrows(descriptor.name)
          THEN [status |-> "threw", name |-> descriptor.name]
          ELSE [status |-> "amended", name |-> descriptor.name,
                fields |-> AmendedFields(descriptor.name)]
    /\ UNCHANGED <<mainVars, stamped, named>>

SpecAmend == InitAmend /\ [][amendPackageJson]_vars

\* ---- replaceVersionPlaceholders ----
SENTINEL == PLACEHOLDER_PATTERN

\* The pieces a content is made of: the sentinel, its two halves, a text the
\* pattern matches though it is not the sentinel, and other text.
Chunks ==
    { SENTINEL,
      <<"0", ".", "0", ".", "0">>,
      <<"-", "P", "L", "A", "C", "E", "H", "O", "L", "D", "E", "R">>,
      <<"0", "x", "0", "y", "0">>,
      <<"v">> }

RECURSIVE Contents(_)
Contents(n) ==
    IF n = 0 THEN { <<>> }
    ELSE LET shorter == Contents(n - 1) IN
         shorter \cup { t \o c : t \in shorter, c \in Chunks }

Versions ==
    { <<>>,
      <<"6", ".", "0", ".", "0", "-", "r", "c", ".", "1">>,
      <<"0", ".", "0", ".", "0">>,
      <<"1", ".", "0", ".", "0">>,
      <<"$", "&">>,
      <<"$", "$">>,
      <<"0">> }

InitStamp ==
    /\ IdleMain
    /\ descriptor = NoDescriptor
    /\ stamped \in { [status |-> "read", content |-> c, stampData |-> d] :
                       c \in Contents(MaxChunks),
                       d \in { <<>> } \cup { <<v>> : v \in Versions } }
    /\ named = NoNamed

\* content = replaceVersionPlaceholders(src, content)
Substitute ==
    /\ stamped.status = "read"
    /\ stamped' = [status |-> "once", content |-> stamped.content,
                   stampData |-> stamped.stampData,
                   once |-> replaceVersionPlaceholders(stamped.content, stamped.stampData)]
    /\ UNCHANGED <<mainVars, descriptor, named>>

\* The substitution applied to its own result, with the same stamp data.
SubstituteAgain ==
    /\ stamped.status = "once"
    /\ stamped' = [status |-> "twice", content |-> stamped.content,
                   stampData |-> stamped.stampData, once |-> stamped.once,
                   twice |-> replaceVersionPlaceholders(stamped.once, stamped.stampData)]
    /\ UNCHANGED <<mainVars, descriptor, named>>

SpecStamp == InitStamp /\ [][Substitute \/ SubstituteAgain]_vars

\* ---- the entry-point name derivation of writeFesm ----
BaseNames == Strings({"a", "_", "."}, MaxBase) \ { <<>> }

InitName ==
    /\ IdleMain
    /\ descriptor = NoDescriptor
    /\ stamped = NoStamped
    /\ named \in { [status |-> "listed", a |-> a, b |-> b] :
                     a \in BaseNames, b \in BaseNames }

\* The names writeFesm derives for two FESM artifacts of one run.
DeriveNames ==
    /\ named.status = "listed"
    /\ named' = [status |-> "derived", a |-> named.a, b |-> named.b,
                 nameA |-> entryPointName(named.a),
                 nameB |-> entryPointName(named.b)]
    /\ UNCHANGED <<mainVars, descriptor, stamped>>

SpecName == InitName /\ [][DeriveNames]_vars

(***************************************************************************)
(* Vocabulary of the properties, stated apart from the program's own       *)
(* helpers.                                                                *)
(***************************************************************************)
\* The FESM artifacts in processing order, and the name of the k-th.
AllFesms == fesms2015 \o fesms5
NameAt(k) == entryPointName(AllFesms[k])

\* The index of the last '/' of s, or 0.
LastSlash(s) ==
    IF \E k \in 1..Len(s) : s[k] = "/"
    THEN CHOOSE k \in 1..Len(s) : s[k] = "/" /\ \A j \in (k + 1)..Len(s) : s[j] # "/"
    ELSE 0
AfterLastSlash(s) == SubSeq(s, LastSlash(s) + 1, Len(s))
BeforeLastSlash(s) == SubSeq(s, 1, LastSlash(s) - 1)
Under(dir, file) == IF dir = <<>> THEN file ELSE dir \o SLASH \o file

\* The path of a build-output file relative to the build-output root.
BuildRelative(f) == SubSeq(f, Len(binDir) + 2, Len(f))
ExtOf(f) == IF EndsWith(f, D_TS) THEN D_TS ELSE METADATA_JSON

\* The positions, in insertion order, of the secondary names a path starts with.
Matches(f) ==
    { k \in 1..Len(secondaryEntryPoints) :
        StartsWith(BuildRelative(f), secondaryEntryPoints[k]) }
MinOf(S) == CHOOSE k \in S : \A j \in S : k <= j
MaxOf(S) == CHOOSE k \in S : \A j \in S : k >= j

\* <name>/<last segment of name><ext>
EntryPointFile(name, ext) == Under(name, AfterLastSlash(name) \o ext)

IsNgGenerated(path) ==
    \/ EndsWith(path, NGFACTORY \o D_TS)
    \/ EndsWith(path, NGSUMMARY \o D_TS)

RedirectKinds == {"redirect.metadata.json", "redirect.d.ts"}
Redirects == { e \in outTree : e.kind \in RedirectKinds }
RedirectFile(name, ext) == Under(BeforeLastSlash(name), AfterLastSlash(name) \o ext)
RedirectExports(name) == <<".", "/">> \o AfterLastSlash(name) \o SLASH \o AfterLastSlash(name)
ExpectedRedirects ==
    UNION { { [path |-> RedirectFile(secondaryEntryPoints[k], METADATA_JSON),
               kind |-> "redirect.metadata.json",
               exports |-> RedirectExports(secondaryEntryPoints[k])],
              [path |-> RedirectFile(secondaryEntryPoints[k], D_TS),
               kind |-> "redirect.d.ts",
               exports |-> RedirectExports(secondaryEntryPoints[k])] }
            : k \in 1..Len(secondaryEntryPoints) }

(***************************************************************************)
(* C1.  The entry-point name of the first FESM artifact processed (the     *)
(* ES2015 list, then the ES5 list) is the primary from then on; every      *)
(* later name different from it is in the secondary set; the primary is    *)
(* never a member of the secondary set.                                    *)
(***************************************************************************)
C1_PrimaryIsFirstName ==
    /\ classified = 0 => primaryEntryPoint = <<>> /\ secondaryEntryPoints = <<>>
    /\ classified > 0 =>
         /\ primaryEntryPoint = <<NameAt(1)>>
         /\ \A k \in 1..classified :
               NameAt(k) # NameAt(1) => NameAt(k) \in Range(secondaryEntryPoints)
         /\ NameAt(1) \notin Range(secondaryEntryPoints)

\* The primary has been met again after two other names went to the set.
C1_Witness ==
    /\ classified = 3
    /\ NameAt(3) = NameAt(1)
    /\ NameAt(2) # NameAt(1)
    /\ Len(secondaryEntryPoints) = 1

(***************************************************************************)
(* C2.  As claimed: a bundle-index file whose build-relative path starts   *)
(* with more than one secondary name goes to the entry-point file of the   *)
(* matching name inserted FIRST.                                           *)
(***************************************************************************)
C2_FirstMatchWins ==
    \A m \in moved :
        Cardinality(Matches(m.f)) > 1 =>
            m.to = EntryPointFile(secondaryEntryPoints[MinOf(Matches(m.f))], ExtOf(m.f))

(***************************************************************************)
(* C2, amended.  A bundle-index file whose build-relative path starts with *)
(* more than one secondary name goes to the entry-point file of the        *)
(* matching name inserted LAST: the loop does not stop at a match.         *)
(***************************************************************************)
C2_LastMatchWins ==
    \A m \in moved :
        Cardinality(Matches(m.f)) > 1 =>
            m.to = EntryPointFile(secondaryEntryPoints[MaxOf(Matches(m.f))], ExtOf(m.f))

\* A relocated bundle index whose path starts with two secondary names.
C2_Witness ==
    \E m \in moved :
        /\ Cardinality(Matches(m.f)) = 2
        /\ m.to = EntryPointFile(secondaryEntryPoints[MaxOf(Matches(m.f))], ExtOf(m.f))
        /\ m.to # EntryPointFile(secondaryEntryPoints[MinOf(Matches(m.f))], ExtOf(m.f))

(***************************************************************************)
(* C3.  Once a bundle index has been relocated, every FESM artifact of     *)
(* both lists has been classified, and from the first relocation until the *)
(* redirect stubs are written the secondary set does not change.           *)
(***************************************************************************)
C3_ClassifiedBeforeRelocation ==
    /\ [](moved # {} => classified = Len(fesms2015) + Len(fesms5))
    /\ [][(moved # {} /\ ~redirected) =>
              secondaryEntryPoints' = secondaryEntryPoints]_vars

\* A relocation has happened in a run whose both lists added a secondary.
C3_Witness ==
    /\ moved # {}
    /\ Len(fesms2015) > 0
    /\ Len(fesms5) > 0
    /\ Len(secondaryEntryPoints) = 2
    /\ ~redirected

(***************************************************************************)
(* C5.  At the end of a run the redirect files are exactly, for every      *)
(* secondary name, <all-but-last segments>/<last>.metadata.json and        *)
(* <all-but-last segments>/<last>.d.ts, each re-exporting from             *)
(* './<last>/<last>'; none is written for the primary, and none at all     *)
(* when the secondary set is empty (fesms2015 = fesms5 = one artifact).    *)
(***************************************************************************)
C5_RedirectsPerSecondary ==
    pc = "done" =>
        /\ Redirects = ExpectedRedirects
        /\ Cardinality(Redirects) = 2 * Len(secondaryEntryPoints)
        /\ primaryEntryPoint # <<>> =>
              \A e \in Redirects :
                  /\ e.path # RedirectFile(primaryEntryPoint[1], METADATA_JSON)
                  /\ e.path # RedirectFile(primaryEntryPoint[1], D_TS)
        /\ (Len(fesms2015) = 1 /\ fesms5 = fesms2015) =>
              /\ primaryEntryPoint = <<NameAt(1)>>
              /\ Redirects = {}

\* A finished run with a top-level and a nested secondary entry point.
C5_Witness ==
    /\ pc = "done"
    /\ Len(secondaryEntryPoints) = 2
    /\ \E k \in 1..2 : LastSlash(secondaryEntryPoints[k]) > 0
    /\ Cardinality(Redirects) = 4

(***************************************************************************)
(* C6.  As claimed: no file whose name ends in .ngfactory.d.ts or          *)
(* .ngsummary.d.ts is ever in the output tree.                             *)
(***************************************************************************)
C6_NoNgGeneratedFileInOutput ==
    \A e \in outTree : ~IsNgGenerated(e.path)

(***************************************************************************)
(* C6, amended.  No file that the declaration loop or the bundle-index     *)
(* metadata loop writes (the files taken from the build-output tree) has a *)
(* name ending in .ngfactory.d.ts or .ngsummary.d.ts; a source-tree        *)
(* artifact of such a name is copied like any other.                       *)
(***************************************************************************)
C6_NoNgGeneratedFileFromBuildOutput ==
    \A e \in outTree : e.kind \in {"decl", "bimeta"} => ~IsNgGenerated(e.path)

\* The build-output tree held a generated file and its declarations are copied.
C6_Witness ==
    /\ \E f \in Range(allsrcs) : IsNgGenerated(f)
    /\ \E e \in outTree : e.kind = "decl"
    /\ pc = "done"

(***************************************************************************)
(* C9.  As claimed: at the end of a run every declaration and every        *)
(* metadata file of the build-output tree that is neither a bundle index   *)
(* nor .ngfactory/.ngsummary is at its build-relative path in the output.  *)
(***************************************************************************)
IsPlainDeclaration(f) ==
    /\ EndsWith(f, D_TS)
    /\ ~EndsWith(f, BUNDLE_INDEX_D_TS)
    /\ ~IsNgGenerated(f)

IsPlainMetadata(f) ==
    /\ EndsWith(f, METADATA_JSON)
    /\ ~EndsWith(f, BUNDLE_INDEX_METADATA_JSON)
    /\ ~EndsWith(f, NGFACTORY \o METADATA_JSON)
    /\ ~EndsWith(f, NGSUMMARY \o METADATA_JSON)

C9_DeclarationsAndMetadataCopied ==
    pc = "done" =>
        \A f \in Range(allsrcs) :
            (IsPlainDeclaration(f) \/ IsPlainMetadata(f)) =>
                BuildRelative(f) \in Paths(outTree)

(***************************************************************************)
(* C9, amended.  At the end of a run every declaration (.d.ts) file of the *)
(* build-output tree that is neither a bundle index nor                    *)
(* .ngfactory/.ngsummary is at its build-relative path in the output; the  *)
(* run copies no metadata file other than the bundle indexes.              *)
(***************************************************************************)
C9_DeclarationsCopied ==
    pc = "done" =>
        /\ \A f \in Range(allsrcs) :
              IsPlainDeclaration(f) =>
                  \E e \in outTree : e.path = BuildRelative(f) /\ e.kind = "decl"
        /\ \A e \in outTree :
              EndsWith(e.path, METADATA_JSON) =>
                  e.kind \in {"bimeta", "redirect.metadata.json", "src"}

\* A finished run whose build-output tree held a declaration and a metadata file.
C9_Witness ==
    /\ pc = "done"
    /\ \E f \in Range(allsrcs) : IsPlainDeclaration(f)
    /\ \E f \in Range(allsrcs) : IsPlainMetadata(f)

(***************************************************************************)
(* C10.  As claimed: a bundle-index file whose build-relative path starts  *)
(* with no secondary name goes to <primary><ext>, <primary> being the name *)
(* of a FESM artifact that was classified as primary.                      *)
(***************************************************************************)
C10_FallbackIsClassifiedPrimary ==
    \A m \in moved :
        Matches(m.f) = {} =>
            /\ classified > 0
            /\ primaryEntryPoint = <<NameAt(1)>>
            /\ m.to = NameAt(1) \o ExtOf(m.f)

(***************************************************************************)
(* Vocabulary of C4: the fields as the claim words them.                   *)
(***************************************************************************)
\* The name without its leading '@' segment; NoName when nothing follows it.
IsScoped(name) == Len(name) > 0 /\ name[1] = "@"
HasUnscopedPart(name) == ~IsScoped(name) \/ \E k \in 1..Len(name) : name[k] = "/"
Unscoped(name) ==
    IF IsScoped(name)
    THEN SubSeq(name, (CHOOSE k \in 1..Len(name) :
                          name[k] = "/" /\ \A j \in 1..(k - 1) : name[j] # "/") + 1,
                Len(name))
    ELSE name
SegmentCount(path) == 1 + Cardinality({ k \in 1..Len(path) : path[k] = "/" })
Dashed(path) == [k \in 1..Len(path) |-> IF path[k] = "/" THEN "-" ELSE path[k]]
RECURSIVE UpDirs(_)
UpDirs(n) == IF n = 0 THEN DOT ELSE IF n = 1 THEN DOTDOT ELSE DOTDOT \o SLASH \o UpDirs(n - 1)

ClaimedFields(name) ==
    LET rest == Unscoped(name)
        rel == UpDirs(SegmentCount(rest) - 1)
        last == AfterLastSlash(rest)
    IN [main |-> rel \o <<"/", "b", "u", "n", "d", "l", "e", "s", "/">> \o Dashed(rest) \o <<".", "u", "m", "d", ".", "j", "s">>,
        module |-> rel \o <<"/", "e", "s", "m", "5", "/">> \o last \o <<".", "j", "s">>,
        es2015 |-> rel \o <<"/", "e", "s", "m", "2", "0", "1", "5", "/">> \o last \o <<".", "j", "s">>,
        typings |-> <<".", "/">> \o last \o D_TS]

C4_Examples ==
    /\ descriptor.name = ANGULAR_CORE =>
          descriptor.fields = [main |-> <<".", "/", "b", "u", "n", "d", "l", "e", "s", "/", "c", "o", "r", "e", ".", "u", "m", "d", ".", "j", "s">>,
                               module |-> <<".", "/", "e", "s", "m", "5", "/", "c", "o", "r", "e", ".", "j", "s">>,
                               es2015 |-> <<".", "/", "e", "s", "m", "2", "0", "1", "5", "/", "c", "o", "r", "e", ".", "j", "s">>,
                               typings |-> <<".", "/", "c", "o", "r", "e", ".", "d", ".", "t", "s">>]
    /\ descriptor.name = SCOPE_FOO =>
          descriptor.fields.typings = <<".", "/", "f", "o", "o", ".", "d", ".", "t", "s">>
    /\ descriptor.name = SCOPE_SUB_FOO =>
          descriptor.fields.main = <<".", ".", "/", "b", "u", "n", "d", "l", "e", "s", "/", "s", "u", "b", "-", "f", "o", "o", ".", "u", "m", "d", ".", "j", "s">>

(***************************************************************************)
(* C4.  As claimed: for every package name amendPackageJson sets main,     *)
(* module, es2015 and typings from the name without its leading '@'        *)
(* segment.                                                                *)
(***************************************************************************)
C4_FieldsForEveryName ==
    descriptor.status \in {"amended", "threw"} =>
        /\ descriptor.status = "amended"
        /\ descriptor.fields = ClaimedFields(descriptor.name)
        /\ C4_Examples

(***************************************************************************)
(* C4, amended.  For every package name that keeps at least one segment    *)
(* once a leading '@' segment is dropped, amendPackageJson sets main,      *)
(* module, es2015 and typings as claimed; for a name that is a scope       *)
(* segment alone (such as '@angular') it throws and sets nothing.          *)
(***************************************************************************)
C4_FieldsForNamesWithASegment ==
    descriptor.status \in {"amended", "threw"} =>
        IF HasUnscopedPart(descriptor.name)
        THEN /\ descriptor.status = "amended"
             /\ descriptor.fields = ClaimedFields(descriptor.name)
             /\ C4_Examples
        ELSE descriptor.status = "threw"

\* A scoped name with two segments after the scope has been rewritten.
C4_Witness ==
    /\ descriptor.status = "amended"
    /\ descriptor.name = SCOPE_SUB_FOO
    /\ descriptor.fields.main = <<".", ".", "/", "b", "u", "n", "d", "l", "e", "s", "/", "s", "u", "b", "-", "f", "o", "o", ".", "u", "m", "d", ".", "j", "s">>

(***************************************************************************)
(* Vocabulary of C7.                                                       *)
(***************************************************************************)
HasSentinel(s) == IndexOf(s, SENTINEL, 1) # 0
HasMatch(s) == \E k \in 1..Len(s) : MatchesAt(s, k)
PLACEHOLDER == <<"P", "L", "A", "C", "E", "H", "O", "L", "D", "E", "R">>

\* Every occurrence of 'PLACEHOLDER' in s is the end of a match of the pattern.
PlaceholdersAreSentinels(s) ==
    \A k \in 1..Len(s) :
        (k + Len(PLACEHOLDER) - 1 <= Len(s)
            /\ SubSeq(s, k, k + Len(PLACEHOLDER) - 1) = PLACEHOLDER)
        => (k > 6 /\ MatchesAt(s, k - 6))

\* A version that is not empty and holds no '$' and no letter of PLACEHOLDER.
PlainVersion(v) ==
    /\ Len(v) > 0
    /\ \A k \in 1..Len(v) : v[k] \notin ({"$"} \cup Range(PLACEHOLDER))

(***************************************************************************)
(* C7.  As claimed: without stamp data the content is returned unchanged;  *)
(* with stamp data, for every content and version, the result holds no     *)
(* sentinel and substituting a second time changes nothing.                *)
(***************************************************************************)
C7_SentinelFreeAndIdempotent ==
    stamped.status = "twice" =>
        IF IsNull(stamped.stampData)
        THEN stamped.once = stamped.content
        ELSE ~HasSentinel(stamped.once) /\ stamped.twice = stamped.once

(***************************************************************************)
(* C7, amended.  Without stamp data the content is returned unchanged.     *)
(* With stamp data the result holds no sentinel (no match of the pattern   *)
(* at all) and substituting a second time changes nothing, for every       *)
(* content whose occurrences of 'PLACEHOLDER' all belong to a match of the *)
(* pattern and every version that is not empty and holds neither '$' nor a *)
(* letter of PLACEHOLDER.  Outside of that the inserted version can form a *)
(* new sentinel with the text around it, or be expanded ('$&') to one.     *)
(***************************************************************************)
C7_SentinelFreeForPlainVersions ==
    stamped.status = "twice" =>
        IF IsNull(stamped.stampData)
        THEN stamped.once = stamped.content /\ stamped.twice = stamped.content
        ELSE (PlainVersion(stamped.stampData[1])
                /\ PlaceholdersAreSentinels(stamped.content))
             => /\ ~HasMatch(stamped.once)
                /\ stamped.twice = stamped.once

\* Two sentinels, one of them not the literal text, replaced by a plain version.
C7_Witness ==
    /\ stamped.status = "twice"
    /\ ~IsNull(stamped.stampData)
    /\ PlainVersion(stamped.stampData[1])
    /\ PlaceholdersAreSentinels(stamped.content)
    /\ HasSentinel(stamped.content)
    /\ \E k \in 1..Len(stamped.content) :
          /\ MatchesAt(stamped.content, k)
          /\ SubSeq(stamped.content, k, k + Len(SENTINEL) - 1) # SENTINEL
    /\ stamped.once # stamped.content

(***************************************************************************)
(* Vocabulary of C8.                                                       *)
(***************************************************************************)
\* The longest prefix of s that holds no '.'.
BeforeFirstDot(s) ==
    LET n == CHOOSE k \in 0..Len(s) :
                 /\ \A j \in 1..k : s[j] # "."
                 /\ (k < Len(s) => s[k + 1] = ".")
    IN SubSeq(s, 1, n)

(***************************************************************************)
(* C8.  As claimed: two FESM artifacts with distinct base names get        *)
(* distinct entry-point names.                                             *)
(***************************************************************************)
C8_DistinctBaseNamesDistinctNames ==
    (named.status = "derived" /\ named.a # named.b) => named.nameA # named.nameB

(***************************************************************************)
(* C8, amended.  The derivation is injective on the part of the base name  *)
(* before its first '.': two FESM artifacts get the same entry-point name  *)
(* exactly when their base names agree up to the first '.'.                *)
(***************************************************************************)
C8_InjectiveUpToFirstDot ==
    named.status = "derived" =>
        (named.nameA = named.nameB
            <=> BeforeFirstDot(named.a) = BeforeFirstDot(named.b))

\* Two base names that differ only by an empty leading segment.
C8_Witness ==
    /\ named.status = "derived"
    /\ named.a = <<"_", "_", "a">>
    /\ named.b = <<"a", ".", "a">>
    /\ named.nameA = <<"/", "a">>
    /\ named.nameB = <<"a">>
=============================================================================
